---- MODULE Spec2Model ----
(***************************************************************************)
(* A model of tools/mermaid_timeline.py: the CSV loader, the downsampler   *)
(* (with Python's binary64 arithmetic for the bucket bounds), the xychart  *)
(* block renderer and the control flow of main().                          *)
(***************************************************************************)
EXTENDS Integers, Sequences, FiniteSets, TLC

VARIABLES
    values,      \* downsample: the argument values
    max_points,  \* downsample: the argument max_points
    result,      \* downsample: what the call did (returned a list / raised)
    dsPc,        \* "call" before the call, "returned" or "raised" after it
    args,        \* main: the parsed command line
    input,       \* main: the CSV text behind args.csv_file
    pc,          \* main: the statement reached; "done" / "failed" at exit
    cols,        \* main: the loaded columns
    ticks,       \* main: cols["tick"]
    idx,         \* main: position of the running for loop (1-based)
    written,     \* main: the texts printed to out, one per print call
    inFile,      \* load_csv: state of the handle f
    outFile,     \* main: state of the handle out
    exc,         \* main: the exception that ended the run, "none" if none
    stderr       \* main: the messages printed to sys.stderr

dsVars == <<values, max_points, result, dsPc>>
mainVars == <<args, input, pc, cols, ticks, idx, written, inFile, outFile, exc, stderr>>
vars == <<values, max_points, result, dsPc,
          args, input, pc, cols, ticks, idx, written, inFile, outFile, exc, stderr>>

(***************************************************************************)
(* Bounds of the model.                                                    *)
(***************************************************************************)
MaxLen == 16
MaxCap == 13
MaxNegCap == 2
ScenarioRows == 100
MaxRows == 123
MaxMetrics == 2

\* line 32: the default of max_points, the only cap xychart uses
DefaultMaxPoints == 30

(***************************************************************************)
(* Python ints are unbounded and Python floats are IEEE 754 binary64.      *)
(* The mantissa of a float does not fit TLC's 32-bit integers, so a        *)
(* mantissa is a natural number held as a sequence of limbs, least         *)
(* significant first, in base 2^15.                                        *)
(***************************************************************************)
MantissaBits == 53
LimbBits == 15
LimbBase == 2 ^ LimbBits

RECURSIVE BitLen(_)
BitLen(x) == IF x = 0 THEN 0 ELSE 1 + BitLen(x \div 2)

\* a * m + carry, for 0 <= m <= LimbBase
RECURSIVE MulCarry(_, _, _)
MulCarry(a, m, carry) ==
    IF a = <<>>
    THEN IF carry = 0 THEN <<>>
         ELSE <<carry % LimbBase>> \o MulCarry(<<>>, m, carry \div LimbBase)
    ELSE LET t == Head(a) * m + carry
         IN  <<t % LimbBase>> \o MulCarry(Tail(a), m, t \div LimbBase)

BigFromInt(x) == MulCarry(<<>>, 0, x)
BigMulSmall(a, m) == MulCarry(a, m, 0)
BigAddSmall(a, m) == MulCarry(a, 1, m)

\* quotient and remainder of a by d, for 1 <= d <= LimbBase
RECURSIVE BigDivSmall(_, _)
BigDivSmall(a, d) ==
    IF a = <<>>
    THEN [q |-> <<>>, r |-> 0]
    ELSE LET hi == BigDivSmall(Tail(a), d)
             t  == hi.r * LimbBase + Head(a)
         IN  [q |-> <<t \div d>> \o hi.q, r |-> t % d]

RECURSIVE BigShl(_, _)
BigShl(a, k) ==
    IF k >= LimbBits THEN <<0>> \o BigShl(a, k - LimbBits)
    ELSE BigMulSmall(a, 2 ^ k)

RECURSIVE BigShr(_, _)
BigShr(a, k) ==
    IF a = <<>> THEN <<>>
    ELSE IF k >= LimbBits THEN BigShr(Tail(a), k - LimbBits)
    ELSE BigDivSmall(a, 2 ^ k).q

RECURSIVE BigBitLen(_)
BigBitLen(a) ==
    IF a = <<>> THEN 0
    ELSE LET up == BigBitLen(Tail(a))
         IN  IF up > 0 THEN up + LimbBits ELSE BitLen(Head(a))

RECURSIVE BigToInt(_)
BigToInt(a) == IF a = <<>> THEN 0 ELSE Head(a) + LimbBase * BigToInt(Tail(a))

\* round-to-nearest, ties-to-even, of q + r/d (the default IEEE 754 rounding)
RoundHalfEven(qr, d) ==
    LET odd == qr.q # <<>> /\ Head(qr.q) % 2 = 1
        up  == 2 * qr.r > d \/ (2 * qr.r = d /\ odd)
    IN  IF up THEN BigAddSmall(qr.q, 1) ELSE qr.q

(***************************************************************************)
(* A non-negative float is [m, e], standing for m * 2^e, m < 2^53 (or      *)
(* m = 2^53 after a carry out of the rounding, which is the same number    *)
(* as 2^52 * 2^(e+1)).                                                     *)
(***************************************************************************)
FloatZero == [m |-> <<>>, e |-> 0]

\* n / c in float arithmetic: the quotient correctly rounded to 53 bits
FloatDiv(n, c) ==
    IF n = 0 THEN FloatZero
    ELSE LET s1      == MantissaBits - 1 - (BitLen(n) - BitLen(c))
             Quot(s) == BigDivSmall(BigShl(BigFromInt(n), s), c)
             s       == IF BigBitLen(Quot(s1).q) >= MantissaBits THEN s1 ELSE s1 + 1
         IN  [m |-> RoundHalfEven(Quot(s), c), e |-> -s]

\* i * f in float arithmetic (the int i converts exactly): the product
\* rounded to 53 bits
FloatMulInt(i, f) ==
    LET p == BigMulSmall(f.m, i)
        L == BigBitLen(p)
        s == IF L > MantissaBits THEN L - MantissaBits ELSE 0
    IN  [m |-> RoundHalfEven(BigDivSmall(p, 2 ^ s), 2 ^ s), e |-> f.e + s]

\* int(f): truncation
FloatToInt(f) ==
    IF f.e >= 0 THEN BigToInt(BigShl(f.m, f.e))
    ELSE BigToInt(BigShr(f.m, -f.e))

(***************************************************************************)
(* downsample                                                              *)
(***************************************************************************)
Return(v, b) == [kind |-> "return", val |-> v, buckets |-> b]
Raise(e)     == [kind |-> "raise", exc |-> e]

RECURSIVE SumSlice(_, _, _)
\* sum(values[start:end]), Python's 0-based half-open slice
SumSlice(vs, start, end) ==
    IF start >= end THEN 0 ELSE vs[start + 1] + SumSlice(vs, start + 1, end)

\* int(i * step), the bound lines 39 and 40 compute
BucketBound(i, step) == FloatToInt(FloatMulInt(i, step))

\* <<int(lo * step), ..., int(hi * step)>>: the bounds the iterations use,
\* each computed once (end of iteration i is start of iteration i + 1, the
\* same expression on the same operands); split in halves to keep TLC's
\* evaluation shallow
RECURSIVE BucketBounds(_, _, _)
BucketBounds(step, lo, hi) ==
    IF lo = hi THEN <<BucketBound(lo, step)>>
    ELSE LET mid == (lo + hi) \div 2
         IN  BucketBounds(step, lo, mid) \o BucketBounds(step, mid + 1, hi)

\* lines 37-42: the loop over range(count), bounds[i + 1] being int(i * step)
BucketLoop(vs, count, bounds) ==
    IF \E i \in 0 .. count - 1 : bounds[i + 2] = bounds[i + 1]
    THEN Raise("ZeroDivisionError")                     \* line 41: // 0
    ELSE Return([k \in 1 .. count |->
                    SumSlice(vs, bounds[k], bounds[k + 1])
                      \div (bounds[k + 1] - bounds[k])],
                [k \in 1 .. count |-> [start |-> bounds[k], end |-> bounds[k + 1]]])

\* the loop running over range(max_points - 1)
DownsampleLoop_oneShort(vs, cap) ==
    IF cap = 0 THEN Raise("ZeroDivisionError")
    ELSE IF cap < 0 THEN Return(<<>>, <<>>)
    ELSE BucketLoop(vs, cap - 1, BucketBounds(FloatDiv(Len(vs), cap), 0, cap))

\* lines 36-42
DownsampleLoop(vs, cap) ==
    IF cap = 0 THEN Raise("ZeroDivisionError")          \* line 36: len / 0
    ELSE IF cap < 0 THEN Return(<<>>, <<>>)             \* line 36 gives a negative
                                                        \* step, range(cap) is empty
    ELSE BucketLoop(vs, cap, BucketBounds(FloatDiv(Len(vs), cap), 0, cap))

\* the guard of line 34 turned around
downsample_guardReversed(vs, cap) ==
    IF Len(vs) >= cap THEN Return(vs, <<>>) ELSE DownsampleLoop(vs, cap)

\* lines 32-42
downsample(vs, cap) ==
    IF Len(vs) <= cap THEN Return(vs, <<>>) ELSE DownsampleLoop(vs, cap)

(***************************************************************************)
(* The downsampler on its own: inputs drawn from bounded sets.             *)
(***************************************************************************)
Shapes == {"ramp", "square", "flat"}

Series(shape, n) ==
    [k \in 1 .. n |->
        CASE shape = "ramp"   -> k - 1
          [] shape = "square" -> (k - 1) * (k - 1) - 10
          [] OTHER            -> 7]

(***************************************************************************)
(* The catalogs (lines 98-119).  A Python dict keeps insertion order, so   *)
(* each catalog is the sequence of its entries.                            *)
(***************************************************************************)
Metric(key, title, col, ylabel) ==
    [key |-> key, title |-> title, col |-> col, ylabel |-> ylabel]

MetricEntries ==
    << Metric("alive", "Population", "alive", "count"),
       Metric("trades", "Cumulative Trades", "trades", "count"),
       Metric("teaches", "Cumulative Teaches", "teaches", "count"),
       Metric("gold", "Total Gold", "gold", "gold"),
       Metric("avg_stress", "Average Stress", "avg_stress", "stress (0-100)"),
       Metric("food", "Food on Map", "food", "tiles"),
       Metric("items", "Items on Map", "items", "tiles"),
       Metric("avg_fit", "Average Fitness", "avg_fit", "fitness"),
       Metric("best_fit", "Best Fitness", "best_fit", "fitness"),
       Metric("holders", "Item Holders", "holders", "count"),
       Metric("crafted", "Crafted Items (shield+compass)", "crafted", "count"),
       Metric("crystal_npcs", "Crystal NPCs", "crystal_npcs", "count") >>

MetricKeys == {MetricEntries[i].key : i \in DOMAIN MetricEntries}

METRIC_GROUPS ==
    [k \in MetricKeys |-> CHOOSE e \in {MetricEntries[i] : i \in DOMAIN MetricEntries} : e.key = k]

Composite(key, title, series_defs) ==
    [key |-> key, title |-> title, series_defs |-> series_defs]

COMPOSITES ==
    << Composite("population", "Population & Stress",
                 << <<"alive", "alive">>, <<"avg_stress", "avg_stress">> >>),
       Composite("economy", "Economy",
                 << <<"trades", "trades">>, <<"teaches", "teaches">> >>),
       Composite("fitness", "Fitness",
                 << <<"best_fit", "best_fit">>, <<"avg_fit", "avg_fit">> >>),
       Composite("resources", "Resources",
                 << <<"food", "food">>, <<"items", "items">> >>) >>

(***************************************************************************)
(* Text.  A printed text is a sequence of lines; a line keeps the literal  *)
(* part, the quoted string and the list of values it shows (str(v) of an   *)
(* int is its decimal numeral, which names the int).                       *)
(***************************************************************************)
Line(t, text, vals) == [t |-> t, text |-> text, vals |-> vals]

\* the two fence lines of a block (three backquotes, which a TLA+ string
\* cannot hold, are written "fence")
FenceOpen == "fence mermaid"
FenceClose == "fence"

Blank == << Line("", "", <<>>) >>              \* print(file=out)

\* lines 61-95: the static block (its body lines stand as one)
flowchart ==
    << Line(FenceOpen, "", <<>>),
       Line("flowchart TD", "", <<>>),
       Line("subgraphs", "Simulation, NPC Lifecycle, Economy, Knowledge", <<>>),
       Line(FenceClose, "", <<>>) >>

\* the loop of lines 54-56 putting each new directive first
RECURSIVE LineDirectives_prepending(_)
LineDirectives_prepending(series) ==
    IF series = <<>> THEN Return(<<>>, <<>>)
    ELSE LET y_down == downsample(Head(series)[2], DefaultMaxPoints)
         IN  IF y_down.kind = "raise" THEN y_down
             ELSE LET rest == LineDirectives_prepending(Tail(series))
                  IN  IF rest.kind = "raise" THEN rest
                      ELSE Return(rest.val \o <<Line("line", "", y_down.val)>>, <<>>)

\* lines 54-56: one line directive per series, in the order of series
RECURSIVE LineDirectives(_)
LineDirectives(series) ==
    IF series = <<>> THEN Return(<<>>, <<>>)
    ELSE LET y_down == downsample(Head(series)[2], DefaultMaxPoints)
         IN  IF y_down.kind = "raise" THEN y_down
             ELSE LET rest == LineDirectives(Tail(series))
                  IN  IF rest.kind = "raise" THEN rest
                      ELSE Return(<<Line("line", "", y_down.val)>> \o rest.val, <<>>)

\* lines 45-58
xychart(title, x_values, series, x_label, y_label) ==
    LET x_down == downsample(x_values, DefaultMaxPoints)
    IN  IF x_down.kind = "raise" THEN x_down
        ELSE LET ys == LineDirectives(series)
             IN  IF ys.kind = "raise" THEN ys
                 ELSE Return(<< Line(FenceOpen, "", <<>>),
                                Line("xychart-beta", "", <<>>),
                                Line("title", title, <<>>),
                                Line("x-axis", x_label, x_down.val) >>
                             \o ys.val
                             \o << Line(FenceClose, "", <<>>) >>,
                             <<>>)

(***************************************************************************)
(* The CSV text.  A file is described by its header, its number of data    *)
(* rows and its defect; Cell gives the text of one cell.                   *)
(***************************************************************************)
AllColumns ==
    <<"tick">> \o [i \in DOMAIN MetricEntries |-> MetricEntries[i].col]

Without(header, col) == SelectSeq(header, LAMBDA c : c # col)

ColIndex(header, col) == CHOOSE i \in DOMAIN header : header[i] = col

ColumnOrdinal(col) == ColIndex(AllColumns, col)

\* the integer the generated data puts in (col, row r)
CellInt(ordinal, r) ==
    IF ordinal = 1 THEN 10 * (r - 1)
    ELSE 100 * ordinal + ((r * ordinal) % 17) - 3

\* A file: whether it exists, whether it decodes as UTF-8, its header, its
\* number of data rows, and its defects: the cells that hold no integer
\* numeral but some other text ("text") or nothing at all ("missing": the
\* row is shorter than the header, DictReader gives None)
File(exists, decodes, header, n, defects) ==
    [exists |-> exists, decodes |-> decodes, header |-> header, n |-> n,
     defects |-> defects]

Defect(col, r, kind) == [col |-> col, r |-> r, kind |-> kind]

RowCounts == {1, 2, DefaultMaxPoints, DefaultMaxPoints + 1, ScenarioRows, MaxRows}

Headers == {AllColumns, Without(AllColumns, "tick"), Without(AllColumns, "teaches")}

InputFiles ==
    {File(TRUE, TRUE, h, n, {}) : h \in Headers, n \in RowCounts}
      \cup {File(TRUE, TRUE, AllColumns, 2, {Defect("gold", 2, "text")}),
            File(TRUE, TRUE, AllColumns, 2, {Defect("crystal_npcs", 2, "missing")}),
            File(TRUE, TRUE, AllColumns, 2, {Defect("gold", 2, "missing"),
                                             Defect("food", 1, "text")}),
            File(TRUE, TRUE, AllColumns, 0, {}),     \* header only
            File(TRUE, FALSE, AllColumns, 2, {}),    \* not valid UTF-8
            File(FALSE, TRUE, <<>>, 0, {})}          \* no such file

\* what is piped in when csv_file is "-"
StdinInputs ==
    {File(TRUE, TRUE, AllColumns, 2, {}),
     File(TRUE, TRUE, AllColumns, 0, {}),
     File(TRUE, FALSE, AllColumns, 2, {})}

LoadResult(kind, v, e, handle) ==
    [kind |-> kind, val |-> v, exc |-> e, handle |-> handle]

\* lines 20-29
load_csv(path, file) ==
    LET stdin  == path = "-"
        closed == IF stdin THEN "stdin" ELSE "closed"
        \* the cells int() rejects, as (column position, row, kind)
        bad    == {<<ColIndex(file.header, d.col), d.r, d.kind>> : d \in file.defects}
        \* line 27-28 go column by column, and row by row within a column
        first  == CHOOSE b \in bad :
                      \A o \in bad : b[1] < o[1] \/ (b[1] = o[1] /\ b[2] <= o[2])
    IN  IF ~stdin /\ ~file.exists                               \* line 21
          THEN LoadResult("raise", <<>>, "FileNotFoundError", "unopened")
        ELSE IF ~file.decodes                                   \* line 23
          THEN LoadResult("raise", <<>>, "UnicodeDecodeError",
                          IF stdin THEN "stdin" ELSE "open")
        ELSE IF file.n = 0                                      \* line 27
          THEN LoadResult("raise", <<>>, "IndexError", closed)
        ELSE IF bad # {}                                        \* line 28
          THEN LoadResult("raise", <<>>,
                          IF first[3] = "text" THEN "ValueError" ELSE "TypeError",
                          closed)
        ELSE LoadResult("return",
                        [c \in {file.header[i] : i \in DOMAIN file.header} |->
                            LET ordinal == ColumnOrdinal(c)
                            IN  [r \in 1 .. file.n |-> CellInt(ordinal, r)]],
                        "none", closed)

(***************************************************************************)
(* The command line.  args.metrics is None or a string; the string is the  *)
(* sequence of its comma-separated pieces, a piece being a key with or     *)
(* without blanks around it.  "".split(",") is [""]: the empty string is   *)
(* the one piece with the empty key and no blanks.                         *)
(***************************************************************************)
Piece(key, blanks) == [key |-> key, blanks |-> blanks]

strip(piece) == piece.key

None == [given |-> FALSE, pieces |-> <<>>]
Str(pieces) == [given |-> TRUE, pieces |-> pieces]

\* the truth value of an str or None
Truthy(s) == s.given /\ s.pieces # << Piece("", FALSE) >>

Pieces ==
    {Piece("alive", FALSE), Piece("teaches", TRUE), Piece("foo", FALSE),
     Piece("", FALSE)}

MetricStrings ==
    UNION {[1 .. n -> Pieces] : n \in 1 .. MaxMetrics}

ArgSets ==
    [csv_file  : {"-", "data.csv"},
     metrics   : {None} \cup {Str(p) : p \in MetricStrings},
     output    : {None, Str(<< Piece("charts.md", FALSE) >>)},
     flowchart : BOOLEAN,
     all       : BOOLEAN]

(***************************************************************************)
(* main (lines 122-159), one action per statement or loop iteration.       *)
(***************************************************************************)
Fail(e) ==
    /\ pc' = "failed"
    /\ exc' = e

\* line 131
OpenOut ==
    /\ pc = "open"
    /\ outFile' = IF Truthy(args.output) THEN "open" ELSE "stdout"
    /\ pc' = "load"
    /\ UNCHANGED <<args, input, cols, ticks, idx, written, inFile, exc, stderr>>
    /\ UNCHANGED dsVars

\* line 132
LoadCsv ==
    /\ pc = "load"
    /\ LET r == load_csv(args.csv_file, input)
       IN  /\ inFile' = r.handle
           /\ IF r.kind = "raise"
              THEN Fail(r.exc) /\ UNCHANGED cols
              ELSE cols' = r.val /\ pc' = "tick" /\ UNCHANGED exc
    /\ UNCHANGED <<args, input, ticks, idx, written, outFile, stderr>>
    /\ UNCHANGED dsVars

\* line 133
LookupTick ==
    /\ pc = "tick"
    /\ IF "tick" \in DOMAIN cols
       THEN ticks' = cols["tick"] /\ pc' = "flowchart" /\ UNCHANGED exc
       ELSE Fail("KeyError") /\ UNCHANGED ticks
    /\ UNCHANGED <<args, input, cols, idx, written, inFile, outFile, stderr>>
    /\ UNCHANGED dsVars

\* lines 135-137
Flowchart ==
    /\ pc = "flowchart"
    /\ written' = IF args.flowchart THEN written \o <<flowchart, Blank>> ELSE written
    /\ pc' = "select"
    /\ UNCHANGED <<args, input, cols, ticks, idx, inFile, outFile, exc, stderr>>
    /\ UNCHANGED dsVars

\* lines 139, 146, 150: which of the three loops runs
Select ==
    /\ pc = "select"
    /\ pc' = IF Truthy(args.metrics) THEN "metrics"
             ELSE IF args.all THEN "all" ELSE "composites"
    /\ idx' = 1
    /\ UNCHANGED <<args, input, cols, ticks, written, inFile, outFile, exc, stderr>>
    /\ UNCHANGED dsVars

\* print(xychart(...), file=out); print(file=out)
PrintChart(chart) ==
    IF chart.kind = "raise"
    THEN Fail(chart.exc) /\ UNCHANGED <<written, idx>>
    ELSE /\ written' = written \o <<chart.val, Blank>>
         /\ idx' = idx + 1
         /\ UNCHANGED <<pc, exc>>

\* lines 140-145: one iteration of the loop over args.metrics.split(",")
EmitMetric ==
    /\ pc = "metrics"
    /\ idx <= Len(args.metrics.pieces)
    /\ LET key == strip(args.metrics.pieces[idx])
       IN  IF key \in DOMAIN METRIC_GROUPS
           THEN LET m == METRIC_GROUPS[key]
                IN  IF m.col \in DOMAIN cols
                    THEN PrintChart(xychart(m.title, ticks, << <<m.col, cols[m.col]>> >>,
                                            "tick", m.ylabel))
                    ELSE Fail("KeyError") /\ UNCHANGED <<written, idx>>
           ELSE idx' = idx + 1 /\ UNCHANGED <<pc, exc, written>>
    /\ UNCHANGED <<args, input, cols, ticks, inFile, outFile, stderr>>
    /\ UNCHANGED dsVars

\* lines 147-149: one iteration of the loop over METRIC_GROUPS.items()
EmitAll ==
    /\ pc = "all"
    /\ idx <= Len(MetricEntries)
    /\ LET m == MetricEntries[idx]
       IN  IF m.col \in DOMAIN cols
           THEN PrintChart(xychart(m.title, ticks, << <<m.col, cols[m.col]>> >>,
                                   "tick", m.ylabel))
           ELSE Fail("KeyError") /\ UNCHANGED <<written, idx>>
    /\ UNCHANGED <<args, input, cols, ticks, inFile, outFile, stderr>>
    /\ UNCHANGED dsVars

\* line 153: series = [(name, cols[col]) for name, col in series_defs]
SeriesOf(series_defs, columns) ==
    [k \in DOMAIN series_defs |-> <<series_defs[k][1], columns[series_defs[k][2]]>>]

\* lines 152-155: one iteration of the loop over COMPOSITES.items()
EmitComposite ==
    /\ pc = "composites"
    /\ idx <= Len(COMPOSITES)
    /\ LET c == COMPOSITES[idx]
       IN  IF \A k \in DOMAIN c.series_defs : c.series_defs[k][2] \in DOMAIN cols
           THEN PrintChart(xychart(c.title, ticks, SeriesOf(c.series_defs, cols),
                                   "tick", "value"))
           ELSE Fail("KeyError") /\ UNCHANGED <<written, idx>>
    /\ UNCHANGED <<args, input, cols, ticks, inFile, outFile, stderr>>
    /\ UNCHANGED dsVars

LoopLength ==
    CASE pc = "metrics"    -> Len(args.metrics.pieces)
      [] pc = "all"        -> Len(MetricEntries)
      [] pc = "composites" -> Len(COMPOSITES)
      [] OTHER             -> 0

\* lines 157-159
Finish ==
    /\ pc \in {"metrics", "all", "composites"}
    /\ idx > LoopLength
    /\ IF Truthy(args.output)
       THEN outFile' = "closed" /\ stderr' = stderr \o <<"Wrote to">>
       ELSE UNCHANGED <<outFile, stderr>>
    /\ pc' = "done"
    /\ UNCHANGED <<args, input, cols, ticks, idx, written, inFile, exc>>
    /\ UNCHANGED dsVars

MainIdle ==
    /\ args = [csv_file |-> "-", metrics |-> None, output |-> None,
               flowchart |-> FALSE, all |-> FALSE]
    /\ input = File(FALSE, TRUE, <<>>, 0, {})
    /\ pc = "idle"
    /\ cols = <<>>
    /\ ticks = <<>>
    /\ idx = 1
    /\ written = <<>>
    /\ inFile = "unopened"
    /\ outFile = "unopened"
    /\ exc = "none"
    /\ stderr = <<>>

DsIdle ==
    /\ values = <<>>
    /\ max_points = DefaultMaxPoints
    /\ result = [kind |-> "none"]
    /\ dsPc = "idle"

Init ==
    /\ DsIdle
    /\ args \in ArgSets
    /\ input \in IF args.csv_file = "-" THEN StdinInputs ELSE InputFiles
    /\ pc = "open"
    /\ cols = <<>>
    /\ ticks = <<>>
    /\ idx = 1
    /\ written = <<>>
    /\ inFile = "unopened"
    /\ outFile = "unopened"
    /\ exc = "none"
    /\ stderr = <<>>

Next ==
    \/ OpenOut
    \/ LoadCsv
    \/ LookupTick
    \/ Flowchart
    \/ Select
    \/ EmitMetric
    \/ EmitAll
    \/ EmitComposite
    \/ Finish

Spec == Init /\ [][Next]_vars

(***************************************************************************)
(* The downsampler on its own.                                             *)
(***************************************************************************)
DsInit ==
    /\ MainIdle
    /\ \E n \in 0 .. MaxLen, shape \in Shapes : values = Series(shape, n)
    /\ max_points \in (0 - MaxNegCap) .. MaxCap
    /\ result = [kind |-> "none"]
    /\ dsPc = "call"

CallDownsample ==
    /\ dsPc = "call"
    /\ result' = downsample(values, max_points)
    /\ dsPc' = IF result'.kind = "return" THEN "returned" ELSE "raised"
    /\ UNCHANGED <<values, max_points>>
    /\ UNCHANGED mainVars

DsNext == CallDownsample

SpecDS == DsInit /\ [][DsNext]_vars
(***************************************************************************)
(* Properties of the downsampler (checked under SpecDS).                   *)
(***************************************************************************)
Called == dsPc \in {"returned", "raised"}

\* the bucket bounds the design gives: floor(i * len / cap), exactly
ExactBound(i, n, cap) == (i * n) \div cap

\* C1: for len(values) > cap >= 1 the call returns exactly cap points and
\* the cap buckets the loop used partition [0, len(values)): the first
\* starts at 0, each starts where the one before ends, and the last ends
\* at len(values).
C1_BucketsPartition ==
    (Called /\ max_points >= 1 /\ Len(values) > max_points) =>
        /\ result.kind = "return"
        /\ Len(result.val) = max_points
        /\ Len(result.buckets) = max_points
        /\ result.buckets[1].start = 0
        /\ \A i \in 1 .. max_points - 1 :
              result.buckets[i + 1].start = result.buckets[i].end
        /\ result.buckets[max_points].end = Len(values)

\* C2: for len(values) <= cap the call returns values itself, element for
\* element, the empty sequence and len(values) = cap included.
C2_IdentityBelowCap ==
    (Called /\ Len(values) <= max_points) =>
        /\ result.kind = "return"
        /\ result.val = values

C2_Witness ==
    /\ dsPc = "returned"
    /\ Len(values) = max_points
    /\ Len(values) >= 2
    /\ result.val = values

\* C3: for len(values) > cap >= 1, output point i is the floor-division
\* average of values[floor(i*step) .. floor((i+1)*step) - 1] with
\* step = len(values) / cap, every such bucket is non-empty, and the call
\* never divides by zero.
C3_BucketAverages ==
    (Called /\ max_points >= 1 /\ Len(values) > max_points) =>
        /\ result.kind = "return"
        /\ Len(result.val) = max_points
        /\ \A i \in 0 .. max_points - 1 :
              LET lo == ExactBound(i, Len(values), max_points)
                  hi == ExactBound(i + 1, Len(values), max_points)
              IN  /\ hi > lo
                  /\ result.val[i + 1] = SumSlice(values, lo, hi) \div (hi - lo)

\* C6: for cap <= 0 the call fails with InvalidConfigurationError, whatever
\* values is: it returns nothing and does not fail in another way.
C6_NonPositiveCapRejected ==
    (Called /\ max_points <= 0) =>
        /\ result.kind = "raise"
        /\ result.exc = "InvalidConfigurationError"

(***************************************************************************)
(* Properties of a run of main (checked under Spec).                       *)
(***************************************************************************)
Terminal == pc \in {"done", "failed"}

IsChart(text) == Len(text) >= 2 /\ text[2].t = "xychart-beta"

\* the diagram blocks among the printed texts, in order
Blocks(w) == SelectSeq(w, LAMBDA text : text # Blank)
Charts(w) == SelectSeq(w, IsChart)

LinesOf(block, t) == SelectSeq(block, LAMBDA l : l.t = t)

Min(a, b) == IF a <= b THEN a ELSE b

\* the pieces of the -m string, stripped
ListedKeys == [i \in DOMAIN args.metrics.pieces |-> strip(args.metrics.pieces[i])]

\* the input can be loaded and has its tick column
InputLoads ==
    /\ load_csv(args.csv_file, input).kind = "return"
    /\ \E i \in DOMAIN input.header : input.header[i] = "tick"

\* C4: a run that fails has written nothing: no failure comes after a
\* block, the flowchart block included, went to the output.
C4_AllOrNothing == pc = "failed" => written = <<>>

\* C5: when the -m list holds a key that is not in the catalog, alone or
\* beside valid keys, the run (on an input that loads and has every
\* catalog column) fails with UnknownMetricError and writes no block.
C5_UnknownKeyFails ==
    (/\ Terminal
     /\ InputLoads
     /\ input.header = AllColumns
     /\ Truthy(args.metrics)
     /\ \E i \in DOMAIN ListedKeys : ListedKeys[i] \notin MetricKeys) =>
        /\ pc = "failed"
        /\ exc = "UnknownMetricError"
        /\ written = <<>>

\* C7: a finished run has rendered exactly: the listed metrics, one block
\* each in list order, if a -m list is given (whatever --all says);
\* otherwise the 12 catalog metrics in catalog order if --all is set;
\* otherwise the four composites in catalog order.  --flowchart only puts
\* the one static block first.
C7_SelectionPrecedence ==
    pc = "done" =>
        LET charts   == Charts(written)
            titles   == [j \in DOMAIN charts |-> charts[j][3].text]
            expected ==
                IF args.metrics.given
                THEN [i \in DOMAIN ListedKeys |->
                        IF ListedKeys[i] \in MetricKeys
                        THEN METRIC_GROUPS[ListedKeys[i]].title
                        ELSE "(not a metric)"]
                ELSE IF args.all
                THEN [i \in DOMAIN MetricEntries |-> MetricEntries[i].title]
                ELSE [i \in DOMAIN COMPOSITES |-> COMPOSITES[i].title]
        IN  /\ titles = expected
            /\ Len(Blocks(written)) = Len(charts) + (IF args.flowchart THEN 1 ELSE 0)
            /\ args.flowchart => written[1] = flowchart

\* the run takes the default branch: the loop over COMPOSITES
CompositeRun == ~Truthy(args.metrics) /\ ~args.all

\* C8: every composite block holds, after its one title line and its one
\* x-axis line, one line directive per declared series, in declared
\* order: the k-th is the downsampled column of the k-th declared pair.
C8_CompositeSeriesOrder ==
    CompositeRun =>
        \A j \in DOMAIN Charts(written) :
            LET b == Charts(written)[j]
                c == COMPOSITES[j]
            IN  /\ Len(b) = 5 + Len(c.series_defs)
                /\ b[1].t = FenceOpen
                /\ b[3].t = "title" /\ b[3].text = c.title
                /\ b[4].t = "x-axis"
                /\ b[Len(b)].t = FenceClose
                /\ \A k \in DOMAIN c.series_defs :
                      /\ b[4 + k].t = "line"
                      /\ b[4 + k].vals =
                           downsample(cols[c.series_defs[k][2]], DefaultMaxPoints).val

\* a finished default run over more than 30 rows whose economy block shows
\* two different lines
C8_Witness ==
    /\ pc = "done"
    /\ CompositeRun
    /\ input.n > DefaultMaxPoints
    /\ Len(Charts(written)) = Len(COMPOSITES)
    /\ Charts(written)[2][3].text = "Economy"
    /\ Charts(written)[2][5].vals # Charts(written)[2][6].vals

\* -m names exactly one metric, and it is in the catalog
OneKnownMetric ==
    /\ Truthy(args.metrics)
    /\ Len(ListedKeys) = 1
    /\ ListedKeys[1] \in MetricKeys

\* the CSV is well formed, has n >= 1 rows, the tick column and the column
\* of the selected metric
WellFormedFor(col) ==
    /\ InputLoads
    /\ input.n >= 1
    /\ \E i \in DOMAIN input.header : input.header[i] = col

\* C9: on a well-formed CSV of n >= 1 rows, selecting one known metric
\* does not fail and yields exactly one chart block, whose x-axis list and
\* whose single line have the same number of values, min(n, 30).
C9_SingleMetricChart ==
    (OneKnownMetric /\ WellFormedFor(METRIC_GROUPS[ListedKeys[1]].col)) =>
        /\ pc # "failed"
        /\ pc = "done" =>
              LET charts == Charts(written)
              IN  /\ Len(charts) = 1
                  /\ Len(Blocks(written)) = 1 + (IF args.flowchart THEN 1 ELSE 0)
                  /\ Len(LinesOf(charts[1], "x-axis")) = 1
                  /\ Len(LinesOf(charts[1], "line")) = 1
                  /\ Len(LinesOf(charts[1], "x-axis")[1].vals)
                       = Min(input.n, DefaultMaxPoints)
                  /\ Len(LinesOf(charts[1], "line")[1].vals)
                       = Min(input.n, DefaultMaxPoints)

\* the scenario: 100 rows, -m alive, one block with 30 and 30 values
C9_Witness ==
    /\ pc = "done"
    /\ input.n = 100
    /\ ~args.flowchart
    /\ args.metrics = Str(<< Piece("alive", FALSE) >>)
    /\ Len(Blocks(written)) = 1
    /\ Len(written[1][4].vals) = 30
    /\ Len(written[1][5].vals) = 30

\* C10: when the run has ended, in whatever way, no file the tool opened
\* itself (the CSV file, the destination file) is still open.
C10_StreamsClosed ==
    Terminal => inFile # "open" /\ outFile # "open"
====
